---- MODULE Spec2Model ----
(***************************************************************************)
(* State-machine model of metatable (src/src/metatable/metatable.py): the  *)
(* symbolic-expression evaluator _eval, the per-row transformer _upd and   *)
(* the table method update_filter (update delegates to it with no filter). *)
(* Python lists are sequences (position p of the code is index p + 1); a   *)
(* list object that the code mutates in place is modelled by rewriting the *)
(* element of the table content that holds it.                             *)
(***************************************************************************)
EXTENDS Integers, Sequences, FiniteSets, TLC

\* ------------------------------------------------------------------ bounds
\* Largest column position an update specification may name.
MaxCol == 2
\* Largest number of rows (header included) of an initial table.
MaxRows == 2
\* Largest number of update_filter calls made on one table.
MaxCalls == 2

\* ------------------------------------------------------------------ values
\* A Python value is a record [tag, n]: None, an int, a bool, a str (n is
\* the code of the string, 1 = 'a', 2 = 'b', ...) or the class object drop.
NoneV == [tag |-> "None", n |-> 0]
IntV(k) == [tag |-> "int", n |-> k]
BoolV(b) == [tag |-> "bool", n |-> IF b THEN 1 ELSE 0]
StrV(k) == [tag |-> "str", n |-> k]
\* class drop (the drop-marker): a class object, compared with `is`.
drop == [tag |-> "class drop", n |-> 0]
\* What a raised TypeError looks like to the caller of an evaluation.
TypeError == [tag |-> "TypeError", n |-> 0]

\* Python truth value of a result (the `or` / `if` of _upd's filter test).
Truthy(v) ==
    CASE v.tag = "None" -> FALSE
      [] v.tag \in {"int", "bool"} -> v.n # 0
      [] v.tag = "str" -> v.n # 0
      [] OTHER -> TRUE

\* -------------------------------------------------------------- expressions
\* column(p): a symbolism.symbol subclass whose instance is the position.
column(p) == [t |-> "column", p |-> p, v |-> NoneV, f |-> "", a |-> <<>>]
\* class row (the row-index sentinel).
row == [t |-> "row", p |-> 0, v |-> NoneV, f |-> "", a |-> <<>>]
\* symbolism.symbol(v): a symbol without parameters, which evaluates to v.
symbol(v) == [t |-> "symbol", p |-> 0, v |-> v, f |-> "", a |-> <<>>]
\* A symbol with parameters: instance f applied to the evaluated parameters.
apply(f, a) == [t |-> "symbol", p |-> 0, v |-> NoneV, f |-> f, a |-> a]
\* Anything else (a bare Python value, the class drop included).
literal(v) == [t |-> "literal", p |-> 0, v |-> v, f |-> "", a |-> <<>>]

\* `upd is drop` / `upd is not drop` of _upd and update_filter.
IsDrop(e) == e.t = "literal" /\ e.v = drop

\* The instances of the operator symbols used: operator.is_ and operator.gt.
\* operator.gt raises TypeError unless both operands are numbers or both are
\* strings; an argument whose evaluation raised propagates.
Instance(f, args) ==
    IF \E k \in 1..Len(args) : args[k] = TypeError THEN TypeError
    ELSE CASE f = "is_" -> BoolV(args[1] = args[2])
           [] f = "gt" ->
                IF /\ args[1].tag \in {"int", "bool"}
                   /\ args[2].tag \in {"int", "bool"}
                THEN BoolV(args[1].n > args[2].n)
                ELSE IF args[1].tag = "str" /\ args[2].tag = "str"
                THEN BoolV(args[1].n > args[2].n)
                ELSE TypeError
           [] OTHER -> TypeError

\* metatable._eval(r, i, e).
RECURSIVE _eval(_, _, _)
_eval(r, i, e) ==
    CASE e.t = "column" -> IF e.p < Len(r) THEN r[e.p + 1] ELSE NoneV
      [] e.t = "row" -> IntV(i)
      [] e.t = "symbol" ->
            IF Len(e.a) = 0 THEN e.v
            ELSE Instance(e.f, [k \in 1..Len(e.a) |-> _eval(r, i, e.a[k])])
      [] OTHER -> e.v

\* --------------------------------------------------------- update specs
\* An update specification is a Python dict, modelled as the sequence of its
\* items [col, upd] in insertion (= iteration) order, the keys distinct.
Keys(update) == {update[k].col : k \in 1..Len(update)}

\* max(update.keys()).
Max(S) == CHOOSE m \in S : \A x \in S : x <= m

\* An optional value (Python None or a value) is <<>> or <<value>>.
None == <<>>
Some(x) == <<x>>

\* ------------------------------------------------------------------ _upd
\* Faulty variant: The fill loop stopping one position short.
RECURSIVE FillShort(_, _)
FillShort(row_, col) ==
    IF col > Len(row_) THEN FillShort(Append(row_, NoneV), col) ELSE row_

\* while col > len(row_) - 1: row_.append(None)
RECURSIVE Fill(_, _)
Fill(row_, col) ==
    IF col > Len(row_) - 1 THEN Fill(Append(row_, NoneV), col) ELSE row_

\* Faulty variant: The row filled only for the positions that are not dropped.
RECURSIVE GrowComputedOnly(_, _)
GrowComputedOnly(row_, update) ==
    IF Len(update) = 0 THEN row_
    ELSE GrowComputedOnly(
            IF IsDrop(Head(update).upd) THEN row_
            ELSE Fill(row_, Head(update).col),
            Tail(update))

\* for col in update: (fill): the row object after the in-place appends.
RECURSIVE Grow(_, _)
Grow(row_, update) ==
    IF Len(update) = 0 THEN row_
    ELSE Grow(Fill(row_, Head(update).col), Tail(update))

\* [v for (c, v) in enumerate(r) if c <= column_max]
Truncate(r, column_max) ==
    SelectSeq([k \in 1..Len(r) |-> [c |-> k - 1, v |-> r[k]]],
              LAMBDA cv : cv.c <= column_max)

\* In strict mode (column_max is not None) the working copy is truncated.
StrictPrune(r, column_max) ==
    IF column_max # None
    THEN [k \in 1..Len(Truncate(r, column_max[1])) |->
             Truncate(r, column_max[1])[k].v]
    ELSE r

\* Faulty variant: The update expression evaluated against the working copy.
WrittenFromWorkingCopy(row_, row__, index, upd) == _eval(row__, index, upd)

\* The value one item of the update writes: evaluated against row_.
Written(row_, row__, index, upd) == _eval(row_, index, upd)

\* The loop over update.items(): the working copy, the recorded drops, and
\* whether an evaluation raised (the loop then stops: the exception leaves
\* _upd).
RECURSIVE ApplyItems(_, _, _, _, _)
ApplyItems(row_, row__, drops, index, items) ==
    IF Len(items) = 0 THEN [row__ |-> row__, drops |-> drops, raised |-> FALSE]
    ELSE LET col_ == Head(items).col
             upd == Head(items).upd
         IN IF ~IsDrop(upd)
            THEN LET w == Written(row_, row__, index, upd)
                 IN IF w = TypeError
                    THEN [row__ |-> row__, drops |-> drops, raised |-> TRUE]
                    ELSE ApplyItems(row_, [row__ EXCEPT ![col_ + 1] = w],
                                    drops, index, Tail(items))
            ELSE ApplyItems(row_, row__, Append(drops, col_), index, Tail(items))

\* [v for (c, v) in enumerate(r) if c not in drops]
DropColumns(r, drops) ==
    LET kept == SelectSeq([k \in 1..Len(r) |-> [c |-> k - 1, v |-> r[k]]],
                          LAMBDA cv : \A d \in 1..Len(drops) : drops[d] # cv.c)
    IN [k \in 1..Len(kept) |-> kept[k].v]

\* Faulty variant: The filter evaluated on the row as it was before the update.
FilterValueOnOriginal(row_, row__, index, filter_) ==
    IF filter_ = None THEN BoolV(TRUE) ELSE _eval(row_, index, filter_[1])

\* The filter test of _upd: its value on the working copy (TypeError when
\* the evaluation raises); no filter counts as a true value.
FilterValue(row_, row__, index, filter_) ==
    IF filter_ = None THEN BoolV(TRUE) ELSE _eval(row__, index, filter_[1])

\* Faulty variant: The columns dropped before the filter is applied.
FilteredAfterDrop(row__, drops) == DropColumns(row__, drops)

\* "Apply filter first and then drop columns": the list the filter reads is
\* the working copy with the dropped columns still in it.
Filtered(row__, drops) == row__

\* What _upd returns once the filter passed: the drops are removed.
Emit(row__, drops) == <<DropColumns(row__, drops)>>

\* metatable._upd(((update, filter_, column_max), (index, row_))): the row
\* object after the call (row_), the returned list of rows (out) and whether
\* the call raised.
_upd(update, filter_, column_max, index, row_) ==
    LET grown == Grow(row_, update)
        ap == ApplyItems(grown, StrictPrune(grown, column_max), <<>>, index, update)
        fv == FilterValue(grown, Filtered(ap.row__, ap.drops), index, filter_)
    IN IF ap.raised \/ fv = TypeError
       THEN [row_ |-> grown, out |-> <<>>, raised |-> TRUE]
       ELSE IF Truthy(fv)
       THEN [row_ |-> grown, out |-> Emit(ap.row__, ap.drops), raised |-> FALSE]
       ELSE [row_ |-> grown, out |-> <<>>, raised |-> FALSE]

\* ------------------------------------------------------------------ inputs
\* The rows a table is constructed from: a ragged table (row k has k + 1
\* modulo MaxCol + 1 columns, so some rows are empty) whose first column
\* holds strings and whose other columns hold small ints.
Cell(k, c) == IF c = 0 THEN StrV(k) ELSE IntV((k + c) % 2)
RowLen(k) == (k + 1) % (MaxCol + 1)
InitRow(k) == [c \in 1..RowLen(k) |-> Cell(k, c - 1)]
InitTable(n) == [k \in 1..n |-> InitRow(k)]

\* The update values offered at position c: the drop-marker, and for c = 0
\* and c = 1 a reference to the other of the two columns and the row
\* sentinel, for an even c > 1 two operator nodes, one of them with the
\* class drop as a parameter, for an odd c > 1 a reference to the column
\* before it.
UpdValues(c) ==
    {literal(drop)} \cup
    (CASE c = 0 -> {column(1), row}
       [] c = 1 -> {column(0), row}
       [] c % 2 = 0 -> {apply("is_", <<column(1), literal(NoneV)>>),
                        apply("is_", <<column(0), literal(drop)>>)}
       [] OTHER -> {column(c - 1)})

\* Ascending / descending enumeration of a set of positions.
RECURSIVE Ascending(_)
Ascending(S) ==
    IF S = {} THEN <<>>
    ELSE LET m == CHOOSE x \in S : \A y \in S : x <= y
         IN <<m>> \o Ascending(S \ {m})
Reverse(q) == [k \in 1..Len(q) |-> q[Len(q) + 1 - k]]

\* The items of the dict with keys S and values g, inserted in ascending
\* order of the keys (which is also what dict(enumerate(list)) gives).
Items(S, g) ==
    [k \in 1..Cardinality(S) |->
        [col |-> Ascending(S)[k], upd |-> g[Ascending(S)[k]]]]

\* The update specifications: every non-empty set of positions, every
\* choice of values, inserted in ascending or in descending order.
Updates ==
    UNION {
      UNION { {Items(S, g), Reverse(Items(S, g))}
              : g \in {h \in [S -> UNION {UpdValues(c) : c \in S}] :
                          \A c \in S : h[c] \in UpdValues(c)} }
      : S \in (SUBSET (0..MaxCol)) \ {{}} }

\* The filters: none, a comparison that raises on a missing value, a bare
\* column reference (kept when the value is true), and the class drop itself
\* given as the filter.
Filters ==
    {None,
     Some(apply("gt", <<column(1), symbol(IntV(0))>>)),
     Some(column(0)),
     Some(literal(drop))}

\* The replacement header a caller may pass.
NewHeader == <<StrV(7)>>

\* ------------------------------------------------------------------- state
VARIABLES
    iterable,   \* self.iterable: the table's rows (the row objects' contents)
    header,     \* self.header
    pc,         \* "idle", or where the running update_filter call is
    args,       \* the running (or last) call's arguments
    rows_out,   \* update_filter's local rows_out
    first,      \* position in iterable of the first row left in rows_in
    results,    \* the hook's per-row results: None or Some(result of _upd)
    prior,      \* the table's content when the running (or last) call began
    returned,   \* None, or Some(return value) of the last finished call
    raised,     \* whether the last call ended by raising
    inorder,    \* whether the hook has so far taken the work items in order
    calls       \* number of calls begun

vars == <<iterable, header, pc, args, rows_out, first, results, prior,
          returned, raised, inorder, calls>>

NoArgs == [update |-> <<>>, filter |-> None, header |-> None,
           strict |-> FALSE, column_max |-> 0]

\* metatable.__init__(iterable, name, header).
Init ==
    /\ \E n \in 0..MaxRows : iterable = InitTable(n)
    /\ header \in BOOLEAN
    /\ pc = "idle"
    /\ args = NoArgs
    /\ rows_out = <<>>
    /\ first = 1
    /\ results = <<>>
    /\ prior = <<>>
    /\ returned = None
    /\ raised = FALSE
    /\ inorder = TRUE
    /\ calls = 0

\* ------------------------------------------------------------ update_filter
\* The header row of the result when the table's own header is kept: the
\* row is filled in place (grown), then truncated in strict mode, then the
\* dropped columns are removed.
HeaderDrops(update) ==
    SelectSeq([k \in 1..Len(update) |-> update[k].col],
              LAMBDA c : \E k \in 1..Len(update) :
                            update[k].col = c /\ IsDrop(update[k].upd))
\* Faulty variant: The header row also given the values of the update expressions.
HeaderRowUpdated(grown, update, strict, column_max) ==
    DropColumns(
        ApplyItems(grown,
                   StrictPrune(grown, IF strict THEN Some(column_max) ELSE None),
                   <<>>, 0, update).row__,
        HeaderDrops(update))

HeaderRow(grown, update, strict, column_max) ==
    DropColumns(StrictPrune(grown, IF strict THEN Some(column_max) ELSE None),
                HeaderDrops(update))

\* Faulty variant: The index counted from the table's first row, the header too.
RowIndexCountsHeader(k, res) == k

\* Faulty variant: The index given by the order in which the work items get done.
RowIndexByCompletion(k, res) ==
    Cardinality({j \in 1..Len(res) : res[j] # None})

\* enumerate(rows_in): the index paired with the k-th work item.
RowIndex(k, res) == k - 1

\* metatable.map with a hook that returns the per-row results in input
\* order: the rows of the results, concatenated.
RECURSIVE Collect(_)
Collect(res) ==
    IF Len(res) = 0 THEN <<>> ELSE Head(res)[1] \o Collect(Tail(res))

\* update_filter is entered: the arguments are normalised and column_max
\* computed.
Enter(update, filter, hdr, strict) ==
    /\ pc = "idle"
    /\ pc' = "header"
    /\ args' = [update |-> update, filter |-> filter, header |-> hdr,
                strict |-> strict, column_max |-> Max(Keys(update))]
    /\ prior' = iterable
    /\ rows_out' = <<>>
    /\ first' = 1
    /\ results' = <<>>
    /\ returned' = None
    /\ raised' = FALSE
    /\ inorder' = TRUE
    /\ calls' = calls + 1
    /\ UNCHANGED <<iterable, header>>

\* The first call on a table: any update, filter, replacement header (only
\* read when the table has a header) and strictness.
Call ==
    /\ calls = 0
    /\ \E update \in Updates, filter \in Filters, strict \in BOOLEAN,
          hdr \in (IF header THEN {None, Some(NewHeader)} ELSE {None}) :
            Enter(update, filter, hdr, strict)

\* A later call: the same update applied again.
CallAgain ==
    /\ 0 < calls /\ calls < MaxCalls
    /\ Enter(args.update, args.filter, args.header, args.strict)

\* Faulty variant: the replacement header is treated like a preserved
\* header row (grown, dropped and pruned by the update).
ReplacementProcessed(hdr) ==
    <<HeaderRow(Grow(hdr, args.update), args.update, args.strict,
                args.column_max)>>

\* The rows a replacement header puts into rows_out: the header itself,
\* verbatim, whether or not the table has a row for it to replace.
Replacement(hdr) == <<hdr>>

\* The header branch of update_filter.
HeaderStep ==
    /\ pc = "header"
    /\ IF header /\ args.header = None
       THEN IF Len(iterable) > 0
            THEN LET grown == Grow(iterable[1], args.update)
                 IN /\ iterable' = [iterable EXCEPT ![1] = grown]
                    /\ rows_out' = <<HeaderRow(grown, args.update, args.strict,
                                               args.column_max)>>
                    /\ first' = 2
            ELSE UNCHANGED <<iterable, rows_out, first>>
       ELSE IF header /\ args.header # None
       THEN /\ rows_out' = Replacement(args.header[1])
            /\ first' = 2
            /\ UNCHANGED iterable
       ELSE UNCHANGED <<iterable, rows_out, first>>
    /\ results' = [k \in 1..(Len(iterable) + 1 - first') |-> None]
    /\ pc' = "map"
    /\ UNCHANGED <<header, args, prior, returned, raised, inorder, calls>>

\* column_max if strict else None: what update_filter hands to _upd.
ColumnMaxArg == IF args.strict THEN Some(args.column_max) ELSE None

\* The result of _upd on the k-th work item.
Work(k) ==
    _upd(args.update, args.filter, ColumnMaxArg,
         RowIndex(k, results), iterable[first + k - 1])

\* The hook applies _upd to one work item not yet done (in any order).
RowStep ==
    /\ pc = "map"
    /\ \E k \in 1..Len(results) :
        LET w == Work(k)
        IN /\ results[k] = None
           /\ ~w.raised
           /\ iterable' = [iterable EXCEPT ![first + k - 1] = w.row_]
           /\ results' = [results EXCEPT ![k] = Some(w.out)]
           /\ inorder' = (inorder /\ \A j \in 1..(k - 1) : results[j] # None)
    /\ UNCHANGED <<header, pc, args, rows_out, first, prior, returned, raised,
                   calls>>

\* _upd raises on a work item: the exception leaves update_filter.
RowRaise ==
    /\ pc = "map"
    /\ \E k \in 1..Len(results) :
        LET w == Work(k)
        IN /\ results[k] = None
           /\ w.raised
           /\ iterable' = [iterable EXCEPT ![first + k - 1] = w.row_]
           /\ inorder' = (inorder /\ \A j \in 1..(k - 1) : results[j] # None)
    /\ pc' = "idle"
    /\ raised' = TRUE
    /\ UNCHANGED <<header, args, rows_out, first, results, prior, returned,
                   calls>>

\* All work items are done: rows_out is extended, becomes the table's
\* content and is returned.
Return ==
    /\ pc = "map"
    /\ \A k \in 1..Len(results) : results[k] # None
    /\ rows_out' = rows_out \o Collect(results)
    /\ iterable' = rows_out'
    /\ returned' = Some(rows_out')
    /\ pc' = "idle"
    /\ UNCHANGED <<header, args, first, results, prior, raised, inorder, calls>>

Next == Call \/ CallAgain \/ HeaderStep \/ RowStep \/ RowRaise \/ Return

Spec == Init /\ [][Next]_vars

\* ------------------------------------------------------ reading the state
\* The work items done so far, those that returned a row, and for a work
\* item k: the row as it was before the call, its index, the row returned.
Done == {k \in 1..Len(results) : results[k] # None}
Kept == {k \in Done : Len(results[k][1]) = 1}
PriorRow(k) == prior[first + k - 1]
Out(k) == results[k][1][1]

\* The update value at position p, the dropped positions, the positions
\* written, and where position p of the working copy ends up once the
\* dropped positions are removed.
UpdAt(update, p) ==
    update[CHOOSE k \in 1..Len(update) : update[k].col = p].upd
Dropped(update) ==
    {update[k].col : k \in {j \in 1..Len(update) : IsDrop(update[j].upd)}}
Computed(update) == Keys(update) \ Dropped(update)
OutPos(update, p) == p + 1 - Cardinality({d \in Dropped(update) : d < p})

\* The working copy of _upd as sections 4.2.1 to 4.2.4 describe it, position
\* by position: its length, and at each position the value evaluated on the
\* row as it was before the call, or the row's own value, or None.
BufferLen(n, update, strict) ==
    IF strict \/ n < Max(Keys(update)) + 1 THEN Max(Keys(update)) + 1 ELSE n
Buffer(orig, index, update, strict) ==
    [q \in 1..BufferLen(Len(orig), update, strict) |->
        IF q - 1 \in Computed(update)
        THEN _eval(orig, index, UpdAt(update, q - 1))
        ELSE IF q <= Len(orig) THEN orig[q] ELSE NoneV]

\* The column positions an expression refers to.
RECURSIVE Columns(_)
Columns(e) ==
    IF e.t = "column" THEN {e.p}
    ELSE UNION {Columns(e.a[k]) : k \in 1..Len(e.a)}

\* ------------------------------------------------------------------ claims
\* C1: every update expression is evaluated against the row as it was
\* before the update, never against the working copy: in a returned row, the
\* value at the place of each computed position p is _eval(original row,
\* index, update[p]), also when the expression refers to a position the same
\* update rewrites; so the row returned does not depend on the order of the
\* update's items.
C1_UpdateReadsOriginalRow ==
    \A k \in Kept :
        /\ \A p \in Computed(args.update) :
              Out(k)[OutPos(args.update, p)] =
                  _eval(PriorRow(k), k - 1, UpdAt(args.update, p))
        /\ _upd(Reverse(args.update), args.filter, ColumnMaxArg,
                k - 1, PriorRow(k)).out = results[k][1]

\* C1 witness: a returned row of an update that writes positions 0 and 1
\* each from the other (a swap), on a row whose two values differ.
C1_Witness ==
    \E k \in Kept :
        /\ {0, 1} \subseteq Computed(args.update)
        /\ UpdAt(args.update, 0) = column(1)
        /\ UpdAt(args.update, 1) = column(0)
        /\ Len(PriorRow(k)) >= 2
        /\ PriorRow(k)[1] # PriorRow(k)[2]
        /\ Out(k)[OutPos(args.update, 0)] = PriorRow(k)[2]
        /\ Out(k)[OutPos(args.update, 1)] = PriorRow(k)[1]

\* C2: the filter of a data row is evaluated on the values after the
\* update: a work item that did not raise returns its row exactly when there
\* is no filter or the filter is true on the working copy (the updated
\* values), not on the row as it was.
C2_FilterSeesUpdatedValues ==
    \A k \in Done :
        (k \in Kept) <=>
            \/ args.filter = None
            \/ Truthy(_eval(Buffer(PriorRow(k), k - 1, args.update, args.strict),
                            k - 1, args.filter[1]))

\* C2 witness: a done work item whose filter refers to a column the update
\* computes, and whose outcome differs from what the filter gives on the row
\* as it was before the update.
C2_Witness ==
    \E k \in Done :
        /\ args.filter # None
        /\ Columns(args.filter[1]) \cap Computed(args.update) # {}
        /\ _eval(PriorRow(k), k - 1, args.filter[1]) # TypeError
        /\ (k \in Kept) # Truthy(_eval(PriorRow(k), k - 1, args.filter[1]))

\* C3: the filter is evaluated before the dropped columns are removed: when
\* the filter refers to a column the same update drops, it sees the value
\* that column has at its own position in the working copy; and a row that
\* passes is the working copy without the dropped positions, the other
\* values in their order.
C3_FilterBeforeDrop ==
    \A k \in Done :
        LET buf == Buffer(PriorRow(k), k - 1, args.update, args.strict)
        IN /\ (/\ args.filter # None
               /\ Columns(args.filter[1]) \cap Dropped(args.update) # {})
              => ((k \in Kept) <=> Truthy(_eval(buf, k - 1, args.filter[1])))
           /\ k \in Kept =>
              /\ Len(Out(k)) = Len(buf) - Cardinality(Dropped(args.update))
              /\ \A q \in 1..Len(buf) :
                    q - 1 \notin Dropped(args.update) =>
                        Out(k)[OutPos(args.update, q - 1)] = buf[q]

\* C3 witness: a row passed a filter on column 0 while the update dropped
\* column 0, the column that takes its place after the drop holding a false
\* value; the row returned has lost the column.
C3_Witness ==
    \E k \in Kept :
        /\ args.filter = Some(column(0))
        /\ 0 \in Dropped(args.update)
        /\ 1 \notin Keys(args.update)
        /\ Len(PriorRow(k)) >= 2
        /\ ~Truthy(PriorRow(k)[2])
        /\ Out(k) = Tail(PriorRow(k))

\* C4: a table with a header, updated with no replacement header: the first
\* row always survives as the first row of the result, whatever the update
\* and the filter; it is only grown, truncated in strict mode and relieved of
\* the dropped positions, and every value it keeps is its own (or None at a
\* position it did not have), never one an update expression computes.
C4_HeaderKept ==
    (/\ calls > 0 /\ pc # "header"
     /\ header /\ args.header = None /\ Len(prior) > 0)
    => LET h == prior[1]
           L == BufferLen(Len(h), args.update, args.strict)
       IN /\ Len(rows_out) >= 1
          /\ Len(rows_out[1]) = L - Cardinality(Dropped(args.update))
          /\ \A q \in 1..L :
                q - 1 \notin Dropped(args.update) =>
                    rows_out[1][OutPos(args.update, q - 1)] =
                        IF q <= Len(h) THEN h[q] ELSE NoneV
          /\ returned # None =>
                /\ returned[1] = rows_out
                /\ Len(returned[1]) = 1 + Cardinality(Kept)

\* C4 witness: a call returned with the header kept, although the filter is
\* false on the header's content and the update computes a value at a
\* position the header has.
C4_Witness ==
    /\ returned # None /\ header /\ args.header = None /\ Len(prior) > 0
    /\ args.filter # None
    /\ _eval(returned[1][1], 0, args.filter[1]) # TypeError
    /\ ~Truthy(_eval(returned[1][1], 0, args.filter[1]))
    /\ _eval(prior[1], 0, args.filter[1]) # TypeError
    /\ ~Truthy(_eval(prior[1], 0, args.filter[1]))
    /\ Len(returned[1][1]) > 0
    /\ \E p \in Computed(args.update) :
          /\ p < Len(prior[1])
          /\ _eval(prior[1], 0, UpdAt(args.update, p)) # prior[1][p + 1]

\* C5: a table with a header, updated with a replacement header: the
\* result is the replacement header, as given, followed by what _upd returns
\* for the rows after the old header, the first of them with index 0; the
\* old header is neither emitted nor transformed.
C5_HeaderReplaced ==
    /\ (returned # None /\ header /\ args.header # None)
       => /\ returned[1] =
               <<args.header[1]>> \o
               Collect([k \in 1..(Len(prior) - 1) |->
                           Some(_upd(args.update, args.filter, ColumnMaxArg,
                                     k - 1, prior[k + 1]).out)])
          /\ returned[1][1] = NewHeader
          /\ Len(results) = (IF Len(prior) > 0 THEN Len(prior) - 1 ELSE 0)
          /\ \A k \in Kept : \A p \in Computed(args.update) :
                UpdAt(args.update, p) = row =>
                   Out(k)[OutPos(args.update, p)] = IntV(k - 1)
    /\ (/\ header /\ args.header # None /\ Len(prior) > 0
        /\ pc = "map" \/ raised)
       => /\ iterable[1] = prior[1]
          /\ rows_out = <<NewHeader>>

\* C5 witness: a call with a replacement header returned; the update names
\* a position the replacement header does not have and computes the row
\* index, and the row after the old header was returned with index 0.
C5_Witness ==
    /\ returned # None /\ header /\ args.header # None
    /\ Len(prior) >= 2
    /\ args.column_max >= Len(NewHeader)
    /\ returned[1][1] = NewHeader
    /\ 1 \in Kept
    /\ \E p \in Computed(args.update) :
          /\ UpdAt(args.update, p) = row
          /\ Out(1)[OutPos(args.update, p)] = IntV(0)

\* The default mapping: _upd applied to the rows one after the other, the
\* results concatenated.
RECURSIVE SequentialMap(_, _)
SequentialMap(rows, index) ==
    IF Len(rows) = 0 THEN <<>>
    ELSE _upd(args.update, args.filter, ColumnMaxArg, index, Head(rows)).out
         \o SequentialMap(Tail(rows), index + 1)

\* The number of header rows in the result of the last call.
HeaderRows == IF header /\ (args.header # None \/ Len(prior) > 0) THEN 1 ELSE 0

\* C6: whatever the order in which the hook takes the work items, as long
\* as it returns the results in input order, the data rows of the result are
\* those of the sequential mapping over the table as it was: the rows that
\* pass, in the order of the rows they came from.
C6_OrderPreserved ==
    returned # None =>
        /\ SubSeq(returned[1], HeaderRows + 1, Len(returned[1])) =
              SequentialMap(SubSeq(prior, HeaderRows + 1, Len(prior)), 0)
        /\ Len(returned[1]) = HeaderRows + Cardinality(Kept)
        /\ \A k \in Kept :
              returned[1][HeaderRows + Cardinality({j \in Kept : j <= k})] = Out(k)

\* C6 witness: a call returned after the hook took the work items out of
\* order, with a row filtered out and a row returned, the update computing
\* the row index.
C6_Witness ==
    /\ returned # None
    /\ ~inorder
    /\ Done # Kept
    /\ Kept # {}
    /\ \E p \in Computed(args.update) : UpdAt(args.update, p) = row

\* C7 (as claimed): in strict mode a returned row, and a kept header, has
\* only the positions that appear in the update specification (and are not
\* dropped); every position the specification does not name is discarded.
C7_StrictKeepsOnlyNamedColumns ==
    args.strict =>
        /\ \A k \in Kept :
              Len(Out(k)) = Cardinality(Computed(args.update))
        /\ (/\ calls > 0 /\ pc # "header"
            /\ header /\ args.header = None /\ Len(prior) > 0)
           => Len(rows_out[1]) = Cardinality(Computed(args.update))

\* A single-column drop update {p: drop}.
SingleDrop == Len(args.update) = 1 /\ IsDrop(args.update[1].upd)
Nones(n) == [k \in 1..n |-> NoneV]

\* C8 (as claimed): the update {p: drop} leaves a row of length n <= p as
\* it was, same length and same values.
C8_DropAbsentIsNoOp ==
    \A k \in Kept :
        (SingleDrop /\ args.update[1].col >= Len(PriorRow(k)))
        => Out(k) = PriorRow(k)

\* C8 (amended): the update {p: drop} turns a row of length n <= p into the
\* row padded with None to length p, which is the row itself exactly when
\* p = n, and so does it to a kept header; with no filter such an update
\* never raises; and {0: drop} with no filter and no replacement header,
\* applied to a table whose rows are all empty, returns the same table.
C8_DropAbsentPads ==
    SingleDrop =>
        LET p == args.update[1].col
        IN /\ \A k \in Kept :
                 p >= Len(PriorRow(k)) =>
                    /\ Out(k) = PriorRow(k) \o Nones(p - Len(PriorRow(k)))
                    /\ (Out(k) = PriorRow(k)) <=> (p = Len(PriorRow(k)))
           /\ (/\ calls > 0 /\ pc # "header" /\ header /\ args.header = None
               /\ Len(prior) > 0 /\ p >= Len(prior[1]))
              => rows_out[1] = prior[1] \o Nones(p - Len(prior[1]))
           /\ args.filter = None => ~raised
           /\ (/\ p = 0 /\ args.filter = None /\ args.header = None
               /\ returned # None
               /\ \A j \in 1..Len(prior) : prior[j] = <<>>)
              => returned[1] = prior

\* C8, the repeated drop: the second call of {0: drop} with no filter returned, on a
\* table with a header whose rows are by then all empty, and the table is
\* as it was before that call.
C8_RepeatWitness ==
    /\ SingleDrop /\ args.update[1].col = 0 /\ args.filter = None
    /\ header /\ args.header = None
    /\ calls = 2 /\ returned # None
    /\ Len(prior) >= 1
    /\ \A j \in 1..Len(prior) : prior[j] = <<>>
    /\ returned[1] = prior

\* C8 witness of the padding: {p: drop} returned a row of length n = p as
\* it was and a row of length n < p padded to length p.
C8_PaddedWitness ==
    /\ SingleDrop
    /\ \E k \in Kept :
          /\ Len(PriorRow(k)) = args.update[1].col
          /\ Len(PriorRow(k)) > 0
          /\ Out(k) = PriorRow(k)
    /\ \E k \in Kept :
          /\ Len(PriorRow(k)) < args.update[1].col
          /\ Len(Out(k)) = args.update[1].col
          /\ Out(k) # PriorRow(k)

\* C9 (as claimed): while update_filter runs, and when it ends by raising,
\* the rows of the table's prior content are as they were when it began.
C9_PriorRowsIntact ==
    (pc # "idle" \/ raised) => iterable = prior

\* C10: a returned row whose row had n columns, with m the largest position
\* of the update and d the number of dropped positions, has
\* max(n, m + 1) - d columns (m + 1 - d in strict mode), so at least
\* m + 1 - d; a position the row did not have and the update does not name
\* holds None. The same lengths hold for a kept header, whose new positions
\* all hold None.
C10_Growth ==
    LET m == args.column_max
        d == Cardinality(Dropped(args.update))
        len(n) == IF args.strict THEN m + 1 - d
                  ELSE IF n > m + 1 THEN n - d ELSE m + 1 - d
    IN /\ \A k \in Kept :
             /\ Len(Out(k)) = len(Len(PriorRow(k)))
             /\ Len(Out(k)) >= m + 1 - d
             /\ \A p \in Len(PriorRow(k))..m :
                   p \notin Keys(args.update) =>
                       Out(k)[OutPos(args.update, p)] = NoneV
       /\ (/\ calls > 0 /\ pc # "header" /\ header /\ args.header = None
           /\ Len(prior) > 0)
          => /\ Len(rows_out[1]) = len(Len(prior[1]))
             /\ \A p \in Len(prior[1])..m :
                   p \notin Dropped(args.update) =>
                       rows_out[1][OutPos(args.update, p)] = NoneV

\* C10 witness: in one call with a dropped position, a row shorter than
\* m + 1 was returned grown, a position in between filled with None, and a
\* row at least as long was returned shortened by the drop alone.
C10_Witness ==
    /\ Dropped(args.update) # {}
    /\ ~args.strict
    /\ \E k \in Kept :
          /\ Len(PriorRow(k)) < args.column_max
          /\ \E p \in Len(PriorRow(k))..args.column_max :
                /\ p \notin Keys(args.update)
                /\ Out(k)[OutPos(args.update, p)] = NoneV
          /\ Len(Out(k)) > Len(PriorRow(k))
    /\ \E k \in Kept :
          /\ Len(PriorRow(k)) >= args.column_max + 1
          /\ Len(Out(k)) = Len(PriorRow(k)) - Cardinality(Dropped(args.update))

\* Whether the class drop occurs in an expression as a parameter, at any
\* depth.
RECURSIVE NestedDrop(_)
NestedDrop(e) ==
    \E k \in 1..Len(e.a) : IsDrop(e.a[k]) \/ NestedDrop(e.a[k])

\* Whether the running (or last) call asks _eval to resolve the class drop:
\* nested in an update expression, or in or as the filter.
EvaluatesDrop ==
    \/ \E k \in 1..Len(args.update) : NestedDrop(args.update[k].upd)
    \/ /\ args.filter # None
       /\ IsDrop(args.filter[1]) \/ NestedDrop(args.filter[1])

\* C11 (as claimed): a call whose update expressions or filter hold the
\* drop-marker where _eval has to resolve it signals an error: none of its
\* work items completes, so no value resolved from the drop-marker is
\* written into a row or used as a filter result.
C11_NestedDropRaises ==
    EvaluatesDrop => Done = {}

\* C12 (as claimed): a call on a table that has a header and no rows returns
\* the empty row sequence, whether or not a replacement header is given.
C12_EmptyHeaderTableStaysEmpty ==
    (header /\ Len(prior) = 0 /\ returned # None) => returned[1] = <<>>

\* C12: a call on a table that has a header and no rows has no row to work
\* on, never fails, and returns (and leaves as the table's content) the
\* empty row sequence when no replacement header is given and the one-row
\* sequence holding the replacement header when one is given.
C12_EmptyHeaderTable ==
    (calls > 0 /\ header /\ Len(prior) = 0) =>
        /\ ~raised
        /\ pc = "map" => results = <<>>
        /\ pc = "idle" =>
            /\ returned # None
            /\ returned[1] = (IF args.header = None
                              THEN <<>>
                              ELSE <<args.header[1]>>)
            /\ iterable = returned[1]

\* A call with a replacement header has returned from a table that has a
\* header and no rows.
C12_Witness ==
    /\ header /\ Len(prior) = 0 /\ pc = "idle"
    /\ args.header # None
    /\ returned = Some(<<NewHeader>>)

\* A call without a replacement header has returned from a table that has
\* a header and no rows.
C12_EmptyWitness ==
    /\ header /\ Len(prior) = 0 /\ pc = "idle" /\ calls > 0
    /\ args.header = None
    /\ returned = Some(<<>>)

====
